---- MODULE Spec2Model ----
(***************************************************************************)
(* A model of fix_images.py: the image catalog, the link repair engine     *)
(* (maybe_fix_url, fix_srcset, the two regular-expression passes of        *)
(* process_html) and the file rewriter (backup, overwrite, dry run).       *)
(* Texts, URLs and file names are strings, handled character by character  *)
(* as the Python code and its regular expressions handle them.             *)
(***************************************************************************)
EXTENDS Integers, Sequences, FiniteSets, TLC

(***************************************************************************)
(* Characters and elementary string operations (Python str methods).       *)
(* An intermediate result is named by binding it, The({e(x) : x \in {v}}), *)
(* so that an operator's definition is used in one place.                  *)
(***************************************************************************)
None == "<None>"

DQ == "\""
SQ == "'"

LowerLetters == "abcdefghijklmnopqrstuvwxyz"
UpperLetters == "ABCDEFGHIJKLMNOPQRSTUVWXYZ"
Digits == "0123456789"

The(S) == CHOOSE x \in S : TRUE

SetMin(S) == CHOOSE i \in S : \A j \in S : i <= j
SetMax(S) == CHOOSE i \in S : \A j \in S : i >= j

\* The character s[i] (1-based) as a string of length one, "" outside of s.
Ch(s, i) == IF 1 <= i /\ i <= Len(s) THEN SubSeq(s, i, i) ELSE ""

CharsOf(s) == {SubSeq(s, i, i) : i \in 1..Len(s)}

\* \s and \w of the re module, for ASCII text.
Whitespace == {" ", "\t", "\n", "\r", "\f"}
WordChars ==
    CharsOf(LowerLetters) \cup CharsOf(UpperLetters) \cup CharsOf(Digits) \cup {"_"}

UpperSet == CharsOf(UpperLetters)
SlugChars == CharsOf(LowerLetters) \cup CharsOf(Digits) \cup {"-"}

\* The noise token of maybe_fix_url.
NOISE == "xresdefault"

\* s[i:j], s[i:] and s[:i] with Python's 0-based offsets, cut to the string.
Slice(s, i, j) == SubSeq(s, i + 1, IF j > Len(s) THEN Len(s) ELSE j)
From(s, i) == SubSeq(s, i + 1, Len(s))
Upto(s, i) == SubSeq(s, 1, i)

StartsWith(s, p) == Len(p) <= Len(s) /\ SubSeq(s, 1, Len(p)) = p
EndsWith(s, p) == Len(p) <= Len(s) /\ SubSeq(s, Len(s) - Len(p) + 1, Len(s)) = p

\* What one character of s becomes under a character-wise rewrite:
\*   lower      str.lower()
\*   spaces     re.sub(r'[\s_]+', '-', s): a run of whitespace and underscores
\*              becomes one hyphen, written in place of the run's first character
\*   slugchars  re.sub(r'[^a-z0-9\-]+', '', s)
\*   hyphens    re.sub(r'-{2,}', '-', s)
\*   noise      re.sub(r'(xresdefault)+', '', s): every occurrence of the token
\*              goes (no two occurrences of it can overlap)
CharMap(mode, s, i) ==
    LET c == SubSeq(s, i, i)
        prev == IF i > 1 THEN SubSeq(s, i - 1, i - 1) ELSE ""
    IN CASE mode = "lower" ->
              IF c \in UpperSet
              THEN SubSeq(LowerLetters, CHOOSE k \in 1..26 : SubSeq(UpperLetters, k, k) = c,
                                        CHOOSE k \in 1..26 : SubSeq(UpperLetters, k, k) = c)
              ELSE c
         [] mode = "spaces" ->
              IF c \notin Whitespace \cup {"_"} THEN c
              ELSE IF prev \in Whitespace \cup {"_"} THEN "" ELSE "-"
         [] mode = "slugchars" -> IF c \in SlugChars THEN c ELSE ""
         [] mode = "hyphens" -> IF c = "-" /\ prev = "-" THEN "" ELSE c
         [] mode = "noise" ->
              IF \E j \in 1..i : /\ i - j < Len(NOISE)
                                 /\ j + Len(NOISE) - 1 <= Len(s)
                                 /\ SubSeq(s, j, j + Len(NOISE) - 1) = NOISE
              THEN "" ELSE c

\* The rewrite of s[lo..hi], split in halves so that the evaluation stays shallow.
RECURSIVE MapChars(_, _, _, _)
MapChars(mode, s, lo, hi) ==
    IF lo > hi THEN ""
    ELSE IF lo = hi THEN CharMap(mode, s, lo)
    ELSE The({MapChars(mode, s, lo, m) \o MapChars(mode, s, m + 1, hi) :
                 m \in {(lo + hi) \div 2}})

MapStr(mode, s0) == The({MapChars(mode, s, 1, Len(s)) : s \in {s0}})

\* str.lower()
Lower(s) == MapStr("lower", s)

\* The 0-based offsets at which p occurs in s.
Occurrences(s, p) == {i \in 0..(Len(s) - Len(p)) : SubSeq(s, i + 1, i + Len(p)) = p}

\* str.find and str.rfind: the offset of the first (last) occurrence, or -1.
Find(s, p) == The({IF O = {} THEN -1 ELSE SetMin(O) : O \in {Occurrences(s, p)}})
RFind(s, p) == The({IF O = {} THEN -1 ELSE SetMax(O) : O \in {Occurrences(s, p)}})

Contains(s, p) == Occurrences(s, p) # {}

\* s.split(sep, 1)[0]
BeforeFirst(s, sep) == The({IF i = -1 THEN s ELSE Upto(s, i) : i \in {Find(s, sep)}})

\* s.split(sep) for a one-character separator: every piece, empty ones included.
RECURSIVE Split(_, _)
Split(s, sep) ==
    The({IF i = -1 THEN <<s>> ELSE <<Upto(s, i)>> \o Split(From(s, i + 1), sep) :
            i \in {Find(s, sep)}})

\* The length of the longest run of characters of cs (not of cs) in s from the
\* 0-based offset i on.
SpanIn(s, i, cs) ==
    IF i >= Len(s) THEN 0
    ELSE SetMin({k \in 0..(Len(s) - i) : k = Len(s) - i \/ Ch(s, i + k + 1) \notin cs})

SpanNotIn(s, i, cs) ==
    IF i >= Len(s) THEN 0
    ELSE SetMin({k \in 0..(Len(s) - i) : k = Len(s) - i \/ Ch(s, i + k + 1) \in cs})

\* s.strip() and s.strip(chars)
Strip(s, cs) ==
    The({IF keep = {} THEN "" ELSE SubSeq(s, SetMin(keep), SetMax(keep)) :
            keep \in {{i \in 1..Len(s) : SubSeq(s, i, i) \notin cs}}})

\* s.split(): the whitespace-separated tokens.
RECURSIVE Tokens(_)
Tokens(s) ==
    The({The({IF lo = Len(s) THEN <<>>
              ELSE <<SubSeq(s, lo + 1, lo + n)>> \o Tokens(From(s, lo + n)) :
                 n \in {SpanNotIn(s, lo, Whitespace)}}) :
            lo \in {SpanIn(s, 0, Whitespace)}})

\* sep.join(parts)
RECURSIVE Join(_, _)
Join(parts, sep) ==
    IF parts = <<>> THEN ""
    ELSE IF Len(parts) = 1 THEN parts[1]
    ELSE parts[1] \o sep \o Join(Tail(parts), sep)

(***************************************************************************)
(* The catalog and the resolver.                                           *)
(***************************************************************************)
\* VALID_EXTS, in the order of the tuple.
VALID_EXTS == <<".jpg", ".jpeg", ".png", ".webp", ".gif", ".svg", ".avif">>

\* The alternatives of FIRST_EXT_RE, in the order the pattern tries them.
FIRST_EXT_ALTS == <<"jpg", "jpeg", "png", "webp", "gif", "svg", "avif">>

\* val.lower().endswith(VALID_EXTS)
EndsWithValidExt(s) ==
    \E low \in {Lower(s)} : \E i \in 1..Len(VALID_EXTS) : EndsWith(low, VALID_EXTS[i])

slug(s) ==
    Strip(MapStr("hyphens", MapStr("slugchars", MapStr("spaces", MapStr("lower", s)))),
          {"-"})

\* Path(p).name: the last component of a POSIX path, "" and "." components
\* being dropped.
PathName(p) ==
    The({The({IF keep = {} THEN "" ELSE parts[SetMax(keep)] :
                 keep \in {{i \in 1..Len(parts) : parts[i] \notin {"", "."}}}}) :
            parts \in {Split(p, "/")}})

\* Path(p).suffix for a path that is a file name: from the last dot, unless that
\* dot is the first or the last character.
PathSuffix(name) ==
    The({IF 0 < i /\ i < Len(name) - 1 THEN From(name, i) ELSE "" :
            i \in {RFind(name, ".")}})

\* Path(p).stem for a path that is a file name.
PathStem(name) ==
    The({IF 0 < i /\ i < Len(name) - 1 THEN Upto(name, i) ELSE name :
            i \in {RFind(name, ".")}})

\* The end offsets of the matches of FIRST_EXT_RE that start at the 0-based
\* offset i of name: a dot, one of the alternatives whatever its case, and then a
\* word boundary (\b: the end of the name, or a character that is no word
\* character). At most one alternative matches at an offset.
FirstExtEnds(name, i) ==
    {i + 1 + Len(FIRST_EXT_ALTS[k]) : k \in
        {k \in 1..Len(FIRST_EXT_ALTS) :
            /\ Ch(name, i + 1) = "."
            /\ i + 1 + Len(FIRST_EXT_ALTS[k]) <= Len(name)
            /\ Lower(SubSeq(name, i + 2, i + 1 + Len(FIRST_EXT_ALTS[k]))) = FIRST_EXT_ALTS[k]
            /\ \/ i + 1 + Len(FIRST_EXT_ALTS[k]) = Len(name)
               \/ Ch(name, i + 2 + Len(FIRST_EXT_ALTS[k])) \notin WordChars}}

\* truncate_after_first_ext: name[: m.end()] of the first match, or None.
truncate_after_first_ext(name) ==
    The({IF \A i \in DOMAIN ends : ends[i] = {} THEN None
         ELSE Upto(name, The(ends[SetMin({i \in DOMAIN ends : ends[i] # {}})])) :
            ends \in {[i \in 0..(Len(name) - 1) |-> FirstExtEnds(name, i)]}})

\* normalize_url
normalize_url(url, make_relative) ==
    The({IF make_relative /\ StartsWith(u, "/") THEN From(u, 1) ELSE u :
            u \in {BeforeFirst(BeforeFirst(url, "?"), "#")}})

\* re.sub(r'(xresdefault)+', '', s)
DropNoise(s) == MapStr("noise", s)

(***************************************************************************)
(* difflib: SequenceMatcher.ratio and get_close_matches. Strings here are  *)
(* far shorter than the 200 elements at which autojunk starts.             *)
(***************************************************************************)
\* The length of the common run of a from offset i and b from offset j.
RunLen(a, b, i, j, ahi, bhi) ==
    SetMin({k \in 0..(ahi - i) :
               \/ i + k >= ahi
               \/ j + k >= bhi
               \/ Ch(a, i + k + 1) # Ch(b, j + k + 1)})

\* find_longest_match(alo, ahi, blo, bhi) as <<i, j, k>>: the longest block, the
\* one starting earliest in a and then earliest in b; <<alo, blo, 0>> if none.
find_longest_match(a, b, alo, ahi, blo, bhi) ==
    The({LET k == IF DOMAIN run = {} THEN 0 ELSE SetMax({run[p] : p \in DOMAIN run})
             i == SetMin({p[1] : p \in {p \in DOMAIN run : run[p] = k}})
             j == SetMin({p[2] : p \in {p \in DOMAIN run : run[p] = k /\ p[1] = i}})
         IN IF k = 0 THEN <<alo, blo, 0>> ELSE <<i, j, k>> :
            run \in {[i \in alo..(ahi - 1), j \in blo..(bhi - 1) |->
                         RunLen(a, b, i, j, ahi, bhi)]}})

\* The total size of get_matching_blocks() within a[alo:ahi] and b[blo:bhi]: the
\* longest block, then the blocks to its left and to its right.
RECURSIVE MatchTotal(_, _, _, _, _, _)
MatchTotal(a, b, alo, ahi, blo, bhi) ==
    The({IF m[3] = 0 THEN 0
         ELSE m[3]
              + (IF alo < m[1] /\ blo < m[2]
                 THEN MatchTotal(a, b, alo, m[1], blo, m[2]) ELSE 0)
              + (IF m[1] + m[3] < ahi /\ m[2] + m[3] < bhi
                 THEN MatchTotal(a, b, m[1] + m[3], ahi, m[2] + m[3], bhi) ELSE 0) :
            m \in {find_longest_match(a, b, alo, ahi, blo, bhi)}})

\* ratio() as the fraction <<numerator, denominator>>: 2.0 * matches / length,
\* and 1.0 when both strings are empty.
ratio(a, b) ==
    IF Len(a) + Len(b) = 0 THEN <<1, 1>>
    ELSE <<2 * MatchTotal(a, b, 0, Len(a), 0, Len(b)), Len(a) + Len(b)>>

\* The cutoff of get_close_matches in maybe_fix_url, 0.6, as a fraction.
CutoffNum == 6
CutoffDen == 10

MeetsCutoff(r) == r[1] * CutoffDen >= CutoffNum * r[2]

RatioLess(r, q) == r[1] * q[2] < q[1] * r[2]

\* The order of Python strings, for the characters a slug is made of.
CodeOrder == "-0123456789abcdefghijklmnopqrstuvwxyz"

StrLess(x, y) ==
    LET d == SetMin({i \in 1..(Len(x) + 1) : Ch(x, i) # Ch(y, i) \/ i > Len(x)})
    IN IF d > Len(x) THEN Len(x) < Len(y)
       ELSE IF d > Len(y) THEN FALSE
       ELSE SetMin(Occurrences(CodeOrder, Ch(x, d))) < SetMin(Occurrences(CodeOrder, Ch(y, d)))

\* get_close_matches(word, possibilities, n=1, cutoff=0.6): the possibility with
\* the largest (ratio, string) among those whose ratio meets the cutoff, or None.
\* The matcher's seq1 is the possibility and its seq2 the word.
get_close_matches(word, possibilities) ==
    The({LET result == {x \in possibilities : MeetsCutoff(score[x])}
             Below(x, y) ==
                 \/ RatioLess(score[x], score[y])
                 \/ ~RatioLess(score[y], score[x]) /\ StrLess(x, y)
         IN IF result = {} THEN None
            ELSE CHOOSE x \in result : \A y \in result \ {x} : Below(y, x) :
            score \in {[x \in possibilities |-> ratio(x, word)]}})

\* build_catalog: the base names of the image files and the slug map, the first
\* file seen winning a slug. dir is the enumeration of the images directory, as
\* file names.
IsImageFile(f) == \E e \in {Lower(PathSuffix(f))} : \E i \in 1..Len(VALID_EXTS) : e = VALID_EXTS[i]

RECURSIVE SlugMapOf(_, _)
SlugMapOf(dir, image) ==
    IF dir = <<>> THEN <<>>
    ELSE IF Head(dir) \in image
    THEN (slug(PathStem(Head(dir))) :> Head(dir)) @@ SlugMapOf(Tail(dir), image)
    ELSE SlugMapOf(Tail(dir), image)

build_catalog(dir) ==
    The({[basenames |-> image, slug_map |-> SlugMapOf(dir, image)] :
            image \in {{dir[i] : i \in {i \in 1..Len(dir) : IsImageFile(dir[i])}}}})

\* A prefix that does not follow the flag; RootFollowsFlag must reject it.
images_web_root_absolute(make_relative) == "/images/"

\* The canonical prefix process_html passes to the resolver.
images_web_root(make_relative) == IF make_relative THEN "images/" ELSE "/images/"

\* The prefixes maybe_fix_url leaves alone.
SKIP_PREFIXES == <<"http:", "https:", "data:", "mailto:", "#">>

\* maybe_fix_url, as [ret |-> the value returned (None included), step |-> the
\* return statement that produced it]. fname is Path(norm).name, cut the
\* truncated name, cand the close match of the cleaned slug of the stem.
maybe_fix_url(url, basenames, slug_map, web_root, make_relative) ==
    The({The({The({The({
        IF \E i \in 1..Len(SKIP_PREFIXES) : StartsWith(url, SKIP_PREFIXES[i])
        THEN [ret |-> None, step |-> "skip"]
        ELSE IF fname \in basenames
        THEN [ret |-> IF web_root \o fname # url THEN web_root \o fname ELSE None,
              step |-> "exact"]
        ELSE IF cut # None /\ cut # "" /\ cut \in basenames
        THEN [ret |-> web_root \o cut, step |-> "trunc"]
        ELSE IF cand # None
        THEN [ret |-> web_root \o slug_map[cand], step |-> "fuzzy"]
        ELSE IF norm = fname /\ fname \in basenames
        THEN [ret |-> web_root \o fname, step |-> "bare"]
        ELSE [ret |-> None, step |-> "none"] :
            cand \in {get_close_matches(DropNoise(slug(PathStem(fname))), DOMAIN slug_map)}}) :
            cut \in {truncate_after_first_ext(fname)}}) :
            fname \in {PathName(norm)}}) :
            norm \in {normalize_url(url, make_relative)}})

\* One call of the resolver, as the engine logs it.
Call(url, r) == [url |-> url, ret |-> r.ret, step |-> r.step]

\* The loop of fix_srcset over the stripped comma-separated parts: out is the
\* list built so far, calls the resolver calls made so far.
RECURSIVE SrcsetLoop(_, _, _, _, _, _, _)
SrcsetLoop(parts, out, calls, basenames, slug_map, web_root, make_relative) ==
    IF parts = <<>> THEN [out |-> out, calls |-> calls]
    ELSE IF Head(parts) = ""
    THEN SrcsetLoop(Tail(parts), out, calls, basenames, slug_map, web_root, make_relative)
    ELSE The({The({
        LET url == tokens[1]
            rest == IF Len(tokens) > 1 THEN Join(Tail(tokens), " ") ELSE ""
            new_url == IF r.ret # None /\ r.ret # "" THEN r.ret ELSE url
            item == Strip(new_url \o (IF rest # "" THEN " " \o rest ELSE ""), Whitespace)
        IN SrcsetLoop(Tail(parts), Append(out, item), Append(calls, Call(url, r)),
                      basenames, slug_map, web_root, make_relative) :
            r \in {maybe_fix_url(tokens[1], basenames, slug_map, web_root, make_relative)}}) :
            tokens \in {Tokens(Head(parts))}})

StripAll(parts) == [i \in 1..Len(parts) |-> Strip(parts[i], Whitespace)]

\* A fix_srcset that repairs the first descriptor only and drops the others;
\* DescriptorsIndependent must reject it.
fix_srcset_first(val, basenames, slug_map, web_root, make_relative) ==
    The({[val |-> Join(l.out, ", "), out |-> l.out, calls |-> l.calls] :
            l \in {SrcsetLoop(<<Strip(Split(val, ",")[1], Whitespace)>>, <<>>, <<>>,
                              basenames, slug_map, web_root, make_relative)}})

\* fix_srcset, as [val |-> the string returned, out |-> the list joined, calls].
fix_srcset(val, basenames, slug_map, web_root, make_relative) ==
    The({[val |-> Join(l.out, ", "), out |-> l.out, calls |-> l.calls] :
            l \in {SrcsetLoop(StripAll(Split(val, ",")), <<>>, <<>>,
                              basenames, slug_map, web_root, make_relative)}})

(***************************************************************************)
(* process_html: the attribute pass (ATTR_RE with repl_attr_safe) and the  *)
(* CSS pass (CSS_URL_RE with repl_css). A match is a record of the offsets *)
(* and groups of the regular expression's match object.                    *)
(***************************************************************************)
Quotes == {SQ, DQ}

\* The alternatives of the attr group of ATTR_RE, in the order tried.
ATTR_ALTS == <<"src", "srcset", "href">>

NoMatch == [ok |-> FALSE, start |-> 0, end |-> 0, attr |-> "", quote |-> "", val |-> ""]

\* ATTR_RE at offset p with one alternative of the attr group: the name whatever
\* its case, \s*=\s*, a quote, one or more characters that are not quotes, and
\* the same quote again.
AttrTry(text, p, alt) ==
    LET a == p + Len(alt)
        e == a + SpanIn(text, a, Whitespace)
        r == e + 1 + SpanIn(text, e + 1, Whitespace)
        n == SpanNotIn(text, r + 1, Quotes)
    IN IF /\ a <= Len(text)
          /\ Lower(Slice(text, p, a)) = alt
          /\ Ch(text, e + 1) = "="
          /\ Ch(text, r + 1) \in Quotes
          /\ n >= 1
          /\ Ch(text, r + n + 2) = Ch(text, r + 1)
       THEN [ok |-> TRUE, start |-> p, end |-> r + n + 2, attr |-> Slice(text, p, a),
             quote |-> Ch(text, r + 1), val |-> Slice(text, r + 1, r + 1 + n)]
       ELSE NoMatch

AttrMatchAt(text, p) ==
    The({IF \A k \in DOMAIN try : ~try[k].ok THEN NoMatch
         ELSE try[SetMin({k \in DOMAIN try : try[k].ok})] :
            try \in {[k \in 1..Len(ATTR_ALTS) |-> AttrTry(text, p, ATTR_ALTS[k])]}})

\* CSS_URL_RE at offset p: url( whatever its case, \s*, an optional quote, one or
\* more characters that are no quote and no closing parenthesis, the same quote
\* (or none), \s* and the closing parenthesis. The pattern is greedy; the one
\* match it finds only by giving a space back is "url(", spaces, ")", whose val
\* is the last space.
CssMatchAt(text, p) ==
    The({The({The({
        LET a == p + 4
            q == a + w
            quote == IF Ch(text, q + 1) \in Quotes THEN Ch(text, q + 1) ELSE ""
            v == q + Len(quote)
            e == v + n
            c == e + Len(quote)
        IN IF a > Len(text) \/ Lower(Slice(text, p, a)) # "url(" THEN NoMatch
           ELSE IF n >= 1 /\ (quote = "" \/ Ch(text, e + 1) = quote) /\ Ch(text, c + t + 1) = ")"
           THEN [ok |-> TRUE, start |-> p, end |-> c + t + 1, attr |-> "url",
                 quote |-> quote, val |-> Slice(text, v, e)]
           ELSE IF w >= 1 /\ Ch(text, q + 1) = ")"
           THEN [ok |-> TRUE, start |-> p, end |-> q + 1, attr |-> "url",
                 quote |-> "", val |-> Slice(text, q - 1, q)]
           ELSE NoMatch :
            t \in {SpanIn(text, p + 4 + w + n
                                + 2 * (IF Ch(text, p + 5 + w) \in Quotes THEN 1 ELSE 0),
                          Whitespace)}}) :
            n \in {SpanNotIn(text, p + 4 + w
                                   + (IF Ch(text, p + 5 + w) \in Quotes THEN 1 ELSE 0),
                             Quotes \cup {")"})}}) :
            w \in {SpanIn(text, p + 4, Whitespace)}})

\* A test that lets every value through; EligibilityFilter must reject it.
is_image_ref_any(val) == TRUE

\* The test both callbacks apply to a src, href or url() value before they call
\* the resolver: "/images/" in val or val.lower().endswith(VALID_EXTS).
is_image_ref(val) == Contains(val, "/images/") \/ EndsWithValidExt(val)

\* A test that counts every value the resolver or fix_srcset returns, changed or
\* not; CountAgreesWithText must reject it.
is_change_any(new_val, val) == new_val # None /\ new_val # ""

\* The test both callbacks apply before they count and rewrite:
\* new_val and new_val != val.
is_change(new_val, val) == new_val # None /\ new_val # "" /\ new_val # val

\* The text repl_attr_safe returns for a change.
attr_text(attr, quote, new_val) == attr \o "=" \o quote \o new_val \o quote

\* The text repl_css returns for a change.
css_text(quote, new_val) == "url(" \o DQ \o new_val \o DQ \o ")"

\* A value the callback has not passed to the resolver: new_val stays None.
NotCalled == [ret |-> None, step |-> "uncalled"]

\* What a callback answers for match m once new_val is known: the occurrence
\* with the text that replaces the match (repl) and whether the change counted.
Occurrence(m, group0, new_val, out, calls, rewritten) ==
    [attr |-> m.attr, group0 |-> group0, quote |-> m.quote, val |-> m.val,
     new_val |-> new_val, out |-> out, calls |-> calls,
     counted |-> is_change(new_val, m.val),
     repl |-> IF is_change(new_val, m.val) THEN rewritten ELSE group0]

\* repl_attr_safe on match m of text. The quote of the rewritten attribute is a
\* double quote if group(0) holds one, else a single quote.
repl_attr_safe(text, m, basenames, slug_map, make_relative) ==
    LET group0 == Slice(text, m.start, m.end)
        quote == IF Find(group0, DQ) # -1 THEN DQ ELSE SQ
    IN IF Lower(m.attr) = "srcset"
       THEN The({Occurrence(m, group0, ss.val, ss.out, ss.calls,
                            attr_text(m.attr, quote, ss.val)) :
                    ss \in {fix_srcset(m.val, basenames, slug_map,
                                       images_web_root(make_relative), make_relative)}})
       ELSE The({Occurrence(m, group0, r.ret, <<>>,
                            IF r = NotCalled THEN <<>> ELSE <<Call(m.val, r)>>,
                            attr_text(m.attr, quote, r.ret)) :
                    r \in {IF is_image_ref(m.val)
                           THEN maybe_fix_url(m.val, basenames, slug_map,
                                              images_web_root(make_relative), make_relative)
                           ELSE NotCalled}})

\* repl_css on match m of text.
repl_css(text, m, basenames, slug_map, make_relative) ==
    The({Occurrence(m, Slice(text, m.start, m.end), r.ret, <<>>,
                    IF r = NotCalled THEN <<>> ELSE <<Call(m.val, r)>>,
                    css_text(m.quote, r.ret)) :
            r \in {IF is_image_ref(m.val)
                   THEN maybe_fix_url(m.val, basenames, slug_map,
                                      images_web_root(make_relative), make_relative)
                   ELSE NotCalled}})

\* pattern.sub(repl, text) from offset p on: the leftmost match is replaced and
\* the scan goes on after it. n counts the changes, occ lists the occurrences.
\* pass is "attr" for ATTR_RE.sub(repl_attr_safe, text) and "css" for
\* CSS_URL_RE.sub(repl_css, new_text).
MatchAt(pass, text, i) == IF pass = "attr" THEN AttrMatchAt(text, i) ELSE CssMatchAt(text, i)

Repl(pass, text, m, basenames, slug_map, make_relative) ==
    IF pass = "attr" THEN repl_attr_safe(text, m, basenames, slug_map, make_relative)
    ELSE repl_css(text, m, basenames, slug_map, make_relative)

RECURSIVE Sub(_, _, _, _, _, _)
Sub(pass, text, p, basenames, slug_map, make_relative) ==
    The({IF \A i \in DOMAIN ms : ~ms[i].ok
         THEN [text |-> Slice(text, p, Len(text)), n |-> 0, occ |-> <<>>]
         ELSE The({The({
                 [text |-> Slice(text, p, m.start) \o o.repl \o rest.text,
                  n |-> (IF o.counted THEN 1 ELSE 0) + rest.n,
                  occ |-> <<o>> \o rest.occ] :
                     o \in {Repl(pass, text, m, basenames, slug_map, make_relative)},
                     rest \in {Sub(pass, text, m.end, basenames, slug_map, make_relative)}}) :
                 m \in {ms[SetMin({i \in DOMAIN ms : ms[i].ok})]}}) :
            ms \in {[i \in p..(Len(text) - 1) |-> MatchAt(pass, text, i)]}})

\* The transformation of process_html: the attribute pass, then the CSS pass on
\* its result. changed is the counter both callbacks increment.
transform(text, basenames, slug_map, make_relative) ==
    The({The({[new_text |-> c.text, changed |-> a.n + c.n, occ |-> a.occ \o c.occ] :
                 c \in {Sub("css", a.text, 0, basenames, slug_map, make_relative)}}) :
            a \in {Sub("attr", text, 0, basenames, slug_map, make_relative)}})

(***************************************************************************)
(* The file rewriter: the end of process_html, lines 182 to 186.           *)
(***************************************************************************)
\* path.with_suffix(path.suffix + ".bak")
backup_path(path) == path \o ".bak"

\* A rewriter that writes whenever there are changes, dry run or not;
\* NoMutationWithoutChange must reject it.
write_ignoring_dry_run(changed, write) == changed # 0

\* if changed and write
write_needed(changed, write) == changed # 0 /\ write

\* A rewriter that writes the backup on every run; BackupKeepsEarliest must
\* reject it.
backup_always(files, backup) == TRUE

\* if not backup.exists()
backup_needed(files, backup) == backup \notin DOMAIN files

\* Path(args.root).rglob("*.html")
html_files(files) == {f \in DOMAIN files : EndsWith(f, ".html")}

(***************************************************************************)
(* The inputs: the images directories, the pages and the edits a user      *)
(* makes between two runs.                                                 *)
(***************************************************************************)
\* The number of runs of main() and of edits by hand.
MaxRuns == 2
MaxEdits == 1

\* The enumeration of the images directory (rglob), other files included.
ImageDirs ==
    { <<"a.jpg", "t.jpg", "thu.jpg", "notes.txt">>,
      <<"a b.jpg", "a.png">>,
      <<"min_sky.webp", "Min Sky.WEBP", "a.jpg">> }

\* The html files under the project root (rglob finds both).
HtmlPath == "index.html"
AboutPath == "sub/about.html"

Pages ==
    { "<img src=\"a.jpg\">",
      "<img src=\"/images/a.jpg\">",
      "<img src='t.jpg-x.jpg'>",
      "<img src=\"t.jpgxresdefault.jpg\">",
      "<img src=\"thu.jpgxresdefault.jpg\">",
      "<img src=\"min-sky.webp\">",
      "<img src = \"a.jpg\" srcset='t.jpg-x.jpg 2x, thu.png'>",
      "<img srcset=\"a.jpg 1x, missing.jpg 2x\">",
      "<img srcset=\"missing.jpg 2x\">",
      "<img srcset=\"ab.jpg 1x\">",
      "<img srcset=\"data:image/png;base64,AAAA 1x\">",
      "<img srcset=\"https://x/a.jpg  1x\">",
      "<img srcset=\"https://x/a.jpg 1x, t.jpg 2x\">",
      "<a href=\"thu.html\">",
      "<a href=\"https://x/a.jpg\">",
      "<a href=\"#a.jpg\"><a href='mailto:a.jpg'>",
      "<a href=\"p(url(a.jpg))\">",
      "<p style='background:url(a.jpg)'>",
      "<p style=\"background:url('a.jpg')\">",
      "<p style='x:url(\"/images/thu.css\")'>",
      "<p style='x:url(thu.css)'>",
      "<p style='x:url(data:a.jpg)'>" }

AboutPages == { "<img src=\"a.jpg\">" }

EditPages ==
    { "<img src=\"a.jpg\"><img src=\"thu.html\">",
      "<img src=\"images/a.jpg\">" }

(***************************************************************************)
(* The state.                                                              *)
(***************************************************************************)
VARIABLES
    images,         \* the images directory, as rglob enumerates it
    files,          \* the files under the project root: path -> text
    pc,             \* where main() and process_html are
    make_relative,  \* args.make_paths_relative
    dry_run,        \* args.dry_run
    basenames,      \* the catalog built by this run
    slug_map,
    todo,           \* the html files main() has still to process
    path,           \* process_html: its file
    text,           \*   the text it read
    new_text,       \*   the text it produced
    changed,        \*   its counter
    occ,            \*   the occurrences its two passes located, in order
    total_changes,  \* main(): the sum of the counts
    files0,         \* the files as they were when the run started
    runs,
    edits

vars == <<images, files, pc, make_relative, dry_run, basenames, slug_map, todo, path,
          text, new_text, changed, occ, total_changes, files0, runs, edits>>

locals == <<path, text, new_text, changed, occ>>

Init ==
    /\ images \in ImageDirs
    /\ \E page \in Pages, about \in AboutPages :
         files = (HtmlPath :> page) @@ (AboutPath :> about)
    /\ pc = "idle"
    /\ make_relative = FALSE
    /\ dry_run = FALSE
    /\ basenames = {}
    /\ slug_map = <<>>
    /\ todo = {}
    /\ path = ""
    /\ text = ""
    /\ new_text = ""
    /\ changed = 0
    /\ occ = <<>>
    /\ total_changes = 0
    /\ files0 = files
    /\ runs = 0
    /\ edits = 0

\* main() up to its loop: the arguments, the catalog, the list of html files.
Main(rel, dry) ==
    /\ pc = "idle"
    /\ runs < MaxRuns
    /\ runs' = runs + 1
    /\ make_relative' = rel
    /\ dry_run' = dry
    /\ \E catalog \in {build_catalog(images)} :
         /\ basenames' = catalog.basenames
         /\ slug_map' = catalog.slug_map
    /\ todo' = html_files(files)
    /\ total_changes' = 0
    /\ files0' = files
    /\ pc' = "files"
    /\ UNCHANGED <<images, files, locals, edits>>

\* process_html, lines 103 to 180: read the file and transform its text.
Transform ==
    /\ pc = "files"
    /\ \E f \in todo :
         \E r \in {transform(files[f], basenames, slug_map, make_relative)} :
            /\ path' = f
            /\ todo' = todo \ {f}
            /\ text' = files[f]
            /\ new_text' = r.new_text
            /\ changed' = r.changed
            /\ occ' = r.occ
    /\ pc' = "transformed"
    /\ UNCHANGED <<images, files, make_relative, dry_run, basenames, slug_map,
                   total_changes, files0, runs, edits>>

\* process_html, lines 182 to 185: the backup, unless one exists.
WriteBackup ==
    /\ pc = "transformed"
    /\ write_needed(changed, ~dry_run)
    /\ files' = IF backup_needed(files, backup_path(path))
                THEN (backup_path(path) :> text) @@ files
                ELSE files
    /\ pc' = "backed_up"
    /\ UNCHANGED <<images, make_relative, dry_run, basenames, slug_map, todo, locals,
                   total_changes, files0, runs, edits>>

\* process_html, line 186: the file is overwritten.
WriteHtml ==
    /\ pc = "backed_up"
    /\ files' = [files EXCEPT ![path] = new_text]
    /\ pc' = "written"
    /\ UNCHANGED <<images, make_relative, dry_run, basenames, slug_map, todo, locals,
                   total_changes, files0, runs, edits>>

\* process_html returns its count, which main() adds up (lines 187, 204 to 207).
Return ==
    /\ \/ pc = "written"
       \/ pc = "transformed" /\ ~write_needed(changed, ~dry_run)
    /\ total_changes' = total_changes + changed
    /\ path' = ""
    /\ text' = ""
    /\ new_text' = ""
    /\ changed' = 0
    /\ occ' = <<>>
    /\ pc' = "files"
    /\ UNCHANGED <<images, files, make_relative, dry_run, basenames, slug_map, todo,
                   files0, runs, edits>>

\* main() after its loop.
Finish ==
    /\ pc = "files"
    /\ todo = {}
    /\ pc' = "idle"
    /\ UNCHANGED <<images, files, make_relative, dry_run, basenames, slug_map, todo,
                   locals, total_changes, files0, runs, edits>>

\* Between two runs the user edits the page.
EditHtml(page) ==
    /\ pc = "idle"
    /\ edits < MaxEdits
    /\ edits' = edits + 1
    /\ files' = [files EXCEPT ![HtmlPath] = page]
    /\ UNCHANGED <<images, pc, make_relative, dry_run, basenames, slug_map, todo,
                   locals, total_changes, files0, runs>>

Next ==
    \/ \E rel \in BOOLEAN, dry \in BOOLEAN : Main(rel, dry)
    \/ Transform
    \/ WriteBackup
    \/ WriteHtml
    \/ Return
    \/ Finish
    \/ \E page \in EditPages : EditHtml(page)

Spec == Init /\ [][Next]_vars

(***************************************************************************)
(* The properties of the specification, checked on the occurrences and     *)
(* resolver calls of the process_html call in progress.                    *)
(***************************************************************************)
\* process_html has transformed the text of path and has not returned yet.
InCall == pc \in {"transformed", "backed_up", "written"}

Occs == {occ[i] : i \in DOMAIN occ}

Calls == UNION {{o.calls[j] : j \in DOMAIN o.calls} : o \in Occs}

SrcsetOccs == {o \in Occs : o.attr # "url" /\ Lower(o.attr) = "srcset"}

\* The references the eligibility filter applies to by the specification: href
\* attributes and CSS url() values.
FilteredOccs == {o \in Occs : o.attr = "url" \/ Lower(o.attr) = "href"}

\* The prefixes of the values the specification protects.
ProtectedPrefixes == {"http:", "https:", "data:", "mailto:", "#"}

Protected(v) == \E pre \in ProtectedPrefixes : StartsWith(v, pre)

\* The extensions the specification allows.
AllowedExtensions == {"jpg", "jpeg", "png", "webp", "gif", "svg", "avif"}

\* The specification's eligibility: the value contains an images-directory path
\* segment or ends, whatever the case, in an allowed extension.
Eligible(v) ==
    \/ Contains(v, "/images/")
    \/ \E low \in {Lower(v)} : \E e \in AllowedExtensions : EndsWith(low, "." \o e)

\* The canonical prefix by the specification.
CanonicalPrefix == IF make_relative THEN "images/" ELSE "/images/"

\* The file name of the reference a resolver call was made for.
FileNameOf(url) == PathName(normalize_url(url, make_relative))

\* The specification's truncation: name cut immediately after the first
\* occurrence of a dot and an allowed extension, whatever follows it; None if
\* there is none.
CutAfterFirstExtension(name) ==
    The({IF found = {} THEN None
         ELSE Upto(name, The({p[1] + 1 + Len(p[2]) :
                                 p \in {p \in found : \A q \in found : p[1] <= q[1]}})) :
            found \in {{p \in (0..(Len(name) - 1)) \X AllowedExtensions :
                           /\ p[1] + 1 + Len(p[2]) <= Len(name)
                           /\ Lower(SubSeq(name, p[1] + 1, p[1] + 1 + Len(p[2])))
                                  = "." \o p[2]}}})

\* C1: the transformation is idempotent: transforming the text a first run
\* produced, with the same catalog and the same flag, returns that text unchanged
\* and a change count of zero.
Idempotent ==
    pc = "transformed" =>
        \E again \in {transform(new_text, basenames, slug_map, make_relative)} :
            again.new_text = new_text /\ again.changed = 0

\* C2: protected values are never modified: a located src, href or url() value,
\* or a srcset value of one descriptor, that begins with http:, https:, data:,
\* mailto: or # is left as it is, character for character, and is not counted.
ProtectedKept ==
    InCall =>
        \A o \in Occs :
            Protected(o.val) /\ (o \in SrcsetOccs => Len(Tokens(o.val)) <= 2)
                => ~o.counted /\ o.repl = o.group0

\* C3: extension-truncation repair: a reference whose file name is not a
\* catalog name but is a catalog name followed by garbage right after its
\* extension is resolved by the truncation step to the canonical prefix and that
\* catalog name.
TruncationRepairs ==
    InCall =>
        \A c \in Calls :
            \A fname \in {FileNameOf(c.url)} :
                /\ ~Protected(c.url)
                /\ fname \notin basenames
                /\ CutAfterFirstExtension(fname) \in basenames
                => c.step = "trunc" /\ c.ret = CanonicalPrefix \o CutAfterFirstExtension(fname)

\* The descriptors of a srcset value: its comma-separated parts without the
\* surrounding whitespace, the empty ones left out.
RECURSIVE NonEmpty(_)
NonEmpty(parts) ==
    IF parts = <<>> THEN <<>>
    ELSE IF Strip(Head(parts), Whitespace) = "" THEN NonEmpty(Tail(parts))
    ELSE <<Strip(Head(parts), Whitespace)>> \o NonEmpty(Tail(parts))

Descriptors(val) == NonEmpty(Split(val, ","))

\* What one descriptor becomes: its URL token resolved on its own, or kept if the
\* resolver has no answer, and its suffix.
Repaired(d) ==
    The({The({Join(<<IF r.ret # None THEN r.ret ELSE tokens[1]>> \o Tail(tokens), " ") :
                 r \in {maybe_fix_url(tokens[1], basenames, slug_map, CanonicalPrefix,
                                      make_relative)}}) :
            tokens \in {Tokens(d)}})

\* C4: the descriptors of a srcset value are repaired independently: the
\* rewritten value has one descriptor for each descriptor of the value, in the
\* same order; each is its own URL token resolved on its own (kept if the resolver
\* finds no catalog match) followed by its own suffix.
DescriptorsIndependent ==
    InCall =>
        \A o \in SrcsetOccs :
            \E ds \in {Descriptors(o.val)} :
                /\ Len(o.out) = Len(ds)
                /\ \A i \in 1..Len(ds) : o.out[i] = Repaired(ds[i])
                /\ o.new_val = Join(o.out, ", ")
                /\ Len(o.calls) = Len(ds)
                /\ \A i \in 1..Len(ds) : o.calls[i].url = Tokens(ds[i])[1]

DescriptorsIndependentWitness ==
    /\ pc = "transformed"
    /\ \E o \in SrcsetOccs :
           /\ o.counted
           /\ \E i, j \in DOMAIN o.calls :
                  /\ i < j
                  /\ o.calls[i].ret # None
                  /\ o.calls[j].step = "none"
                  /\ Tokens(o.out[j]) = Tokens(Descriptors(o.val)[j])

\* C5: the path-root marker follows the flag: every value the resolver returns
\* is images/ and a catalog file name, with no leading /, when the flag is set,
\* and /images/ and a catalog file name when it is not, whichever step returned it.
RootFollowsFlag ==
    InCall =>
        \A c \in Calls :
            c.ret # None =>
                /\ \E b \in basenames :
                       c.ret = (IF make_relative THEN "images/" ELSE "/images/") \o b
                /\ make_relative => ~StartsWith(c.ret, "/")
                /\ ~make_relative => StartsWith(c.ret, "/")

RootFollowsFlagWitness ==
    /\ pc = "transformed"
    /\ make_relative
    /\ \A step \in {"exact", "trunc", "fuzzy"} :
           \E c \in Calls : c.step = step /\ c.ret # None

\* C6: no filesystem mutation without a real change: while a file is processed
\* whose count is zero, or in a dry run, no step writes a file, and during a dry
\* run the files are what they were when the run started.
NoMutationWithoutChange ==
    /\ [](pc # "idle" /\ dry_run => files = files0)
    /\ [][pc # "idle" /\ (dry_run \/ changed = 0) => files' = files]_vars

NoMutationWithoutChangeWitness ==
    /\ pc = "files"
    /\ todo = {}
    /\ dry_run
    /\ total_changes > 0
    /\ files = files0

\* C7: the backup keeps the earliest pristine copy: a backup that exists is
\* never changed nor removed; a backup appears only in a run that is not dry and
\* changes the file, holds the text read at the start of that run, and is there
\* before the file is overwritten.
BackupKeepsEarliest ==
    [][\A f \in html_files(files) :
          /\ backup_path(f) \in DOMAIN files =>
                 /\ backup_path(f) \in DOMAIN files'
                 /\ files'[backup_path(f)] = files[backup_path(f)]
          /\ backup_path(f) \notin DOMAIN files /\ backup_path(f) \in DOMAIN files' =>
                 /\ ~dry_run /\ changed # 0 /\ path = f
                 /\ files'[backup_path(f)] = text
                 /\ files'[backup_path(f)] = files0[f]
                 /\ files'[f] = files[f]
          /\ pc # "idle" /\ files'[f] # files[f] =>
                 /\ backup_path(f) \in DOMAIN files
                 /\ ~dry_run /\ changed # 0 /\ path = f
      ]_vars

BackupKeepsEarliestWitness ==
    /\ pc = "written"
    /\ runs > 1
    /\ backup_path(path) \in DOMAIN files
    /\ files[backup_path(path)] # text
    /\ files[path] # text

\* C8: the eligibility filter: a located href or url() value that neither
\* contains /images/ nor ends in an allowed extension is not passed to the
\* resolver, is not rewritten and is not counted, whatever the catalog; if the
\* text holds no other reference, the text is unchanged.
EligibilityFilter ==
    InCall =>
        /\ \A o \in FilteredOccs :
               ~Eligible(o.val) => ~o.counted /\ o.repl = o.group0 /\ o.calls = <<>>
        /\ (\A o \in Occs : o \in FilteredOccs /\ ~Eligible(o.val)) =>
               new_text = text /\ changed = 0

EligibilityFilterWitness ==
    /\ pc = "transformed"
    /\ Occs # {}
    /\ \A o \in Occs :
           /\ Lower(o.attr) = "href"
           /\ ~Eligible(o.val)
           /\ maybe_fix_url(o.val, basenames, slug_map, CanonicalPrefix, make_relative).step
                  = "fuzzy"

\* C9: the quoting style is preserved on rewrite: a rewritten occurrence has
\* its new value between the delimiters of the original occurrence, the same
\* quote on both sides of an attribute value and of a quoted url() argument, and
\* none around a url() argument that had none.
QuotingPreserved ==
    InCall =>
        \A o \in Occs :
            o.counted =>
                IF o.attr = "url"
                THEN EndsWith(o.repl, "(" \o o.quote \o o.new_val \o o.quote \o ")")
                ELSE EndsWith(o.repl, "=" \o o.quote \o o.new_val \o o.quote)

\* C10: the change count agrees with the text: the count is zero if and only
\* if the transformed text is the text read, so that the rewriter, unless the run
\* is dry, writes exactly when the transformation alters the text.
CountAgreesWithText ==
    InCall =>
        /\ changed = 0 <=> new_text = text
        /\ write_needed(changed, ~dry_run) <=> ~dry_run /\ new_text # text

CountAgreesWithTextWitness ==
    /\ pc = "transformed"
    /\ changed = 0
    /\ \E o \in Occs : o.new_val # None /\ o.new_val = o.val

====
